---- MODULE Spec2Model ----
(***************************************************************************)
(* Zippy-Archon workflow orchestration core                                *)
(* (src/iterations/zippy-archon): the session map of archon_server.py, the *)
(* Orchestrator graph of orchestrator.py, the node functions and the       *)
(* error-handling decorator of archon_graph.py, diagnostic_agent.py,       *)
(* tool_generator_agent.py and plugins/plugin_manager.py.                  *)
(*                                                                         *)
(* The graph library the Orchestrator is built on is not part of the       *)
(* repository.  It is modelled by what the source says of it:              *)
(*  - graph.run(initial_state) walks the edges of _build_graph from START; *)
(*  - a returned {"__route__": t} sends control to t (add_dynamic_route);  *)
(*  - interrupt({}) suspends the run; graph.run(user_message) hands the    *)
(*    message to the pending interrupt; with no interrupt pending no node  *)
(*    runs, and the library either returns or raises an error of its own;  *)
(*  - an exception leaving a node is either answered by invoking the node  *)
(*    again or leaves graph.run ("Re-raise to let the flow attempt again   *)
(*    or bubble up", v2-agentic-workflow/archon_graph.py:86).              *)
(* One action is one node invocation or one server request's entry.        *)
(*                                                                         *)
(* The plugin subsystem of src/agentic-workflow/plugins is modelled beside *)
(* it: plugin_manager.py (SpecRegistry), secure_plugin_manager.py          *)
(* (SpecPlugins) and marketplace.py (SpecMarket).  Trust verification and  *)
(* the coin API are outside the repository: their answers are inputs.      *)
(***************************************************************************)
EXTENDS Integers, Sequences, FiniteSets, TLC

VARIABLES
    orchestrators,   \* archon_server.orchestrators: the session ids with an Orchestrator
    pc,              \* per session: the graph position of its Orchestrator
    state,           \* per session: the AgentState dict (a function on the keys present)
    result,          \* per session: how the latest start_flow/resume_flow call stands
    TOOLS_REGISTRY,  \* plugin_manager.TOOLS_REGISTRY: names of the registered tools
    plugin_file,     \* content of plugins/tool_generated.py ("absent" before the first write)
    plugin_module,   \* what importlib has cached for plugins.tool_generated
    calls,           \* number of start_flow/resume_flow requests made so far (at most MaxCalls)
    call,            \* history: per session, the latest request [op, msg, pending]
    executed,        \* history: per session, node bodies invoked during the latest request
    invoked,         \* history: per session and step, body invocations since its last success
    last_step,       \* history: per session, the latest body invocation [node, outcome]
    rerouted,        \* history: per session, the step whose failures rerouted the run ("none")
    at_suspend,      \* history: per session, the state dict when the run last suspended
    manager,         \* agentic-workflow plugins: TOOLS_REGISTRY and the SecurePluginManager fields
    manager_call,    \* history: the latest plugin-manager operation [op, arg, result]
    marketplace,     \* ZippyCoinMarketplace: listings and transactions
    market_call      \* history: the latest marketplace operation and what the coin API answered

vars == <<orchestrators, pc, state, result, TOOLS_REGISTRY, plugin_file, plugin_module,
          calls, call, executed, invoked, last_step, rerouted, at_suspend,
          manager, manager_call, marketplace, market_call>>

\* The state of agentic-workflow/plugins, which no request of archon_server.py touches.
pluginVars == <<manager, manager_call, marketplace, market_call>>

(***************************************************************************)
(* Bounds                                                                  *)
(***************************************************************************)
MaxCalls == 4

Sessions == {"s1", "s2"}

(***************************************************************************)
(* User messages: sequences of tokens (words and blanks), so that          *)
(* str.lower() and the substring tests of route_user_message are computed. *)
(***************************************************************************)
MsgHello == <<"hello">>
MsgFinish == <<"Please", " ", "FINISH">>
MsgTool == <<"new", " ", "plugin">>
UserMessages == {MsgHello, MsgFinish, MsgTool}

\* Texts the language-model collaborators may answer with.
ReasonerTexts == {"plan"}
DiagnosticTexts == {"advice"}
GoodbyeBlobs == {"goodbye"}
\* Plugin code the tool generator may answer with, as token sequences: empty,
\* blank, or code defining the tool class A.
GeneratedCodes == {<<>>, <<" ">>, <<"class A">>}
ToolNames == {"A"}

EmptyDict == [k \in {} |-> 0]

START == "__start__"
END == "__end__"

DecoratedNodes == {"define_scope_with_reasoner", "coder_agent",
                   "route_user_message", "finish_conversation"}
Nodes == DecoratedNodes \cup {"get_next_user_message", "diagnose_errors",
                              "generate_tool_code", "finalize_new_tool"}

(***************************************************************************)
(* archon_graph.py                                                         *)
(***************************************************************************)
\* Mutant of max_retries: route_user_message is given two attempts.
max_retries_RouteTwice(node) ==
    IF node \in {"define_scope_with_reasoner", "coder_agent", "route_user_message"} THEN 2 ELSE 1

\* max_retries of each decorated node (the decorator arguments).
max_retries(node) ==
    CASE node = "define_scope_with_reasoner" -> 2
      [] node = "coder_agent" -> 2
      [] node = "route_user_message" -> 1
      [] node = "finish_conversation" -> 1

\* Mutant of EnsureErrorFields: the error log is set to [] on every invocation.
EnsureErrorFields_ResetsLog(st) ==
    [k \in DOMAIN st \cup {"error_log", "error_retries"} |->
        IF k = "error_log" THEN <<>>
        ELSE IF k \in DOMAIN st THEN st[k] ELSE EmptyDict]

\* wrapper, lines 60-63: create the error fields when the state lacks them.
EnsureErrorFields(st) ==
    [k \in DOMAIN st \cup {"error_log", "error_retries"} |->
        IF k \in DOMAIN st THEN st[k]
        ELSE IF k = "error_log" THEN <<>> ELSE EmptyDict]

\* dict.get(node_name, 0)
GetRetries(retries, node) == IF node \in DOMAIN retries THEN retries[node] ELSE 0

\* Mutant of SetRetries: the dict is replaced by one holding the node alone.
SetRetries_DropsOthers(retries, node, v) == [k \in {node} |-> v]

\* d[node_name] = v
SetRetries(retries, node, v) ==
    [k \in DOMAIN retries \cup {node} |-> IF k = node THEN v ELSE retries[k]]

\* wrapper, line 65
Attempt(st, node) == GetRetries(EnsureErrorFields(st)["error_retries"], node)

\* Mutant of WrapperSuccess: the retry count is not reset on success.
WrapperSuccess_NoReset(st, node) == EnsureErrorFields(st)

\* wrapper, line 68: the state after the body returned.
WrapperSuccess(st, node) ==
    LET s0 == EnsureErrorFields(st)
    IN  [s0 EXCEPT !["error_retries"] = SetRetries(@, node, 0)]

\* Mutant of WrapperFailure: the new entry replaces the log.
WrapperFailure_Replaces(st, node, err) ==
    LET s0 == EnsureErrorFields(st)
    IN  [s0 EXCEPT !["error_log"] = <<[node |-> node, error |-> err]>>,
                   !["error_retries"] = SetRetries(@, node, Attempt(st, node) + 1)]

\* wrapper, lines 71-76: the state after the body raised err.
WrapperFailure(st, node, err) ==
    LET s0 == EnsureErrorFields(st)
    IN  [s0 EXCEPT !["error_log"] = Append(@, [node |-> node, error |-> err]),
                   !["error_retries"] = SetRetries(@, node, Attempt(st, node) + 1)]

\* Mutant of RetriesExhausted: the wrapper re-raises whatever the count.
RetriesExhausted_Never(st, node) == FALSE

\* Mutant of RetriesExhausted: > in place of >=.
RetriesExhausted_Strict(st, node) == Attempt(st, node) + 1 > max_retries(node)

\* wrapper, line 78: whether this failure is answered by the dynamic route.
RetriesExhausted(st, node) == Attempt(st, node) + 1 >= max_retries(node)

\* str.lower() on the tokens of a message.
LowerToken(t) ==
    CASE t = "FINISH" -> "finish"
      [] t = "Finish" -> "finish"
      [] t = "Please" -> "please"
      [] t = "Create" -> "create"
      [] t = "NEW" -> "new"
      [] OTHER -> t

Lower(msg) == [i \in 1..Len(msg) |-> LowerToken(msg[i])]

\* the Python test  phrase in text
Contains(text, phrase) ==
    \E i \in 1..(Len(text) - Len(phrase) + 1) :
        SubSeq(text, i, i + Len(phrase) - 1) = phrase

\* Mutant of RouteLabel: the tool keywords are tested before "finish".
RouteLabel_ToolFirst(message) ==
    LET user_msg == Lower(message)
    IN  IF Contains(user_msg, <<"create", " ", "tool">>)
           \/ Contains(user_msg, <<"new", " ", "plugin">>) THEN "create_tool"
        ELSE IF Contains(user_msg, <<"finish">>) THEN "finish_conversation"
        ELSE "coder_agent"

\* route_user_message, lines 112-120: the label for a message.
RouteLabel(message) ==
    LET user_msg == Lower(message)
    IN  IF Contains(user_msg, <<"finish">>) THEN "finish_conversation"
        ELSE IF Contains(user_msg, <<"create", " ", "tool">>)
                \/ Contains(user_msg, <<"new", " ", "plugin">>) THEN "create_tool"
        ELSE "coder_agent"

(***************************************************************************)
(* orchestrator.py                                                         *)
(***************************************************************************)
\* Mutant of Merge: what a node returns replaces the whole record.
Merge_ReplacesRecord(st, update) == update

\* Mutant of Merge: the messages a node returns are dropped.
Merge_DropsMessages(st, update) ==
    [k \in DOMAIN st \cup DOMAIN update |->
        IF k \notin DOMAIN update \/ k = "messages" THEN st[k] ELSE update[k]]

\* Mutant of Merge: a key the state already holds keeps its old value.
Merge_KeepsOld(st, update) ==
    [k \in DOMAIN st \cup DOMAIN update |-> IF k \in DOMAIN st THEN st[k] ELSE update[k]]

\* AgentState.messages is annotated with  lambda x, y: x + y ; every other
\* field of a returned partial state replaces the old value.
Merge(st, update) ==
    [k \in DOMAIN st \cup DOMAIN update |->
        IF k \notin DOMAIN update THEN st[k]
        ELSE IF k = "messages" /\ k \in DOMAIN st THEN st[k] \o update[k]
        ELSE update[k]]

\* Mutant of EdgeFrom: diagnose_errors leads back to get_next_user_message.
EdgeFrom_DiagnoseContinues(node) ==
    CASE node = START -> "define_scope_with_reasoner"
      [] node = "define_scope_with_reasoner" -> "coder_agent"
      [] node = "coder_agent" -> "get_next_user_message"
      [] node = "finish_conversation" -> END
      [] node = "diagnose_errors" -> "get_next_user_message"
      [] node = "generate_tool_code" -> "finalize_new_tool"
      [] node = "finalize_new_tool" -> END

\* Mutant of EdgeFrom: coder_agent leads back to the router without a suspension.
EdgeFrom_CoderToRoute(node) ==
    CASE node = START -> "define_scope_with_reasoner"
      [] node = "define_scope_with_reasoner" -> "coder_agent"
      [] node = "coder_agent" -> "route_user_message"
      [] node = "finish_conversation" -> END
      [] node = "diagnose_errors" -> END
      [] node = "generate_tool_code" -> "finalize_new_tool"
      [] node = "finalize_new_tool" -> END

\* Mutant of EdgeFrom: generate_tool_code leads straight to END.
EdgeFrom_SkipsFinalize(node) ==
    CASE node = START -> "define_scope_with_reasoner"
      [] node = "define_scope_with_reasoner" -> "coder_agent"
      [] node = "coder_agent" -> "get_next_user_message"
      [] node = "finish_conversation" -> END
      [] node = "diagnose_errors" -> END
      [] node = "generate_tool_code" -> END
      [] node = "finalize_new_tool" -> END

\* _build_graph, lines 49-51, 64, 67, 70-71: the unconditional edges.
EdgeFrom(node) ==
    CASE node = START -> "define_scope_with_reasoner"
      [] node = "define_scope_with_reasoner" -> "coder_agent"
      [] node = "coder_agent" -> "get_next_user_message"
      [] node = "finish_conversation" -> END
      [] node = "diagnose_errors" -> END
      [] node = "generate_tool_code" -> "finalize_new_tool"
      [] node = "finalize_new_tool" -> END

\* Mutant of ConditionalTarget: the finish_conversation label leads to coder_agent.
ConditionalTarget_FinishToCoder(label) ==
    CASE label = "coder_agent" -> "coder_agent"
      [] label = "finish_conversation" -> "coder_agent"
      [] label = "create_tool" -> "generate_tool_code"

\* _build_graph, lines 53-61: the conditional edges after get_next_user_message.
ConditionalTarget(label) ==
    CASE label = "coder_agent" -> "coder_agent"
      [] label = "finish_conversation" -> "finish_conversation"
      [] label = "create_tool" -> "generate_tool_code"

\* start_flow, lines 83-89
InitialState(user_message) ==
    [latest_user_message |-> user_message,
     messages |-> <<>>,
     scope |-> "",
     error_log |-> <<>>,
     error_retries |-> EmptyDict]

\* The state of an Orchestrator whose graph has not run.
NoState == EmptyDict

NoCall == [op |-> "none", msg |-> <<>>, pending |-> FALSE]
NoInvocations == [n \in DecoratedNodes |-> 0]
NoStep == [node |-> "none", outcome |-> "none"]

\* agentic-workflow/plugins after import and construction.  Trust scores and
\* thresholds are floats in [0, 1], kept here in tenths: 0.7 is 7.
default_trust_threshold == 7

\* plugin_manager.TOOLS_REGISTRY = {} and SecurePluginManager.__init__.
NoManager ==
    [TOOLS_REGISTRY |-> EmptyDict, trust_scores |-> EmptyDict, plugin_metadata |-> EmptyDict,
     blocked_plugins |-> <<>>, trust_threshold |-> default_trust_threshold]

NoManagerCall == [op |-> "none", arg |-> <<>>, result |-> "none"]

\* ZippyCoinMarketplace.__init__ with no marketplace_cache.json on disk.
NoMarketplace == [listings |-> EmptyDict, transactions |-> <<>>]

NoMarketCall ==
    [op |-> "none", plugin_id |-> "none", wallet |-> "none", result |-> "none",
     balance |-> 0, transfer |-> FALSE]

InitPlugins ==
    /\ manager = NoManager
    /\ manager_call = NoManagerCall
    /\ marketplace = NoMarketplace
    /\ market_call = NoMarketCall

Init ==
    /\ orchestrators = {}
    /\ pc = [s \in Sessions |-> "absent"]
    /\ state = [s \in Sessions |-> NoState]
    /\ result = [s \in Sessions |-> "none"]
    /\ TOOLS_REGISTRY = {}
    /\ plugin_file = "absent"
    /\ plugin_module = "absent"
    /\ calls = 0
    /\ call = [s \in Sessions |-> NoCall]
    /\ executed = [s \in Sessions |-> <<>>]
    /\ invoked = [s \in Sessions |-> NoInvocations]
    /\ last_step = [s \in Sessions |-> NoStep]
    /\ rerouted = [s \in Sessions |-> "none"]
    /\ at_suspend = [s \in Sessions |-> NoState]
    /\ InitPlugins


(***************************************************************************)
(* archon_server.py: requests                                              *)
(***************************************************************************)
\* Mutant of SessionStore: one Orchestrator serves every session id.
SessionStore_Global(store, session_id, value) == [id \in DOMAIN store |-> value]

\* orchestrators[session_id]: each session id has an Orchestrator of its own,
\* so what a request does to the Orchestrator touches that entry only.
SessionStore(store, session_id, value) == [store EXCEPT ![session_id] = value]

\* Mutant of Busy: a request is taken up while a call of the session is running.
Busy_Never(s) == FALSE

\* A request of a session is served to its end before the next one of that
\* session: the handlers call graph.run synchronously, with no await after
\* request.json().
Busy(s) == result[s] = "running"

\* Mutant of StartFlow: the initial state is merged into the state the session holds.
StartFlow_KeepsState(s, m) ==
    /\ ~Busy(s)
    /\ calls < MaxCalls
    /\ calls' = calls + 1
    /\ orchestrators' = orchestrators \cup {s}
    /\ state' = SessionStore(state, s, Merge(state[s], InitialState(m)))
    /\ pc' = SessionStore(pc, s, EdgeFrom(START))
    /\ result' = SessionStore(result, s, "running")
    /\ call' = [call EXCEPT ![s] = [op |-> "start_flow", msg |-> m,
                                    pending |-> pc[s] = "interrupted"]]
    /\ executed' = [executed EXCEPT ![s] = <<>>]
    /\ invoked' = [invoked EXCEPT ![s] = NoInvocations]
    /\ last_step' = [last_step EXCEPT ![s] = NoStep]
    /\ rerouted' = [rerouted EXCEPT ![s] = "none"]
    /\ at_suspend' = [at_suspend EXCEPT ![s] = NoState]
    /\ UNCHANGED pluginVars
    /\ UNCHANGED <<TOOLS_REGISTRY, plugin_file, plugin_module>>

\* POST /start_flow, lines 20-28, and Orchestrator.start_flow: the map entry is
\* created when missing, and the graph runs from START on a fresh state.
StartFlow(s, m) ==
    /\ ~Busy(s)
    /\ calls < MaxCalls
    /\ calls' = calls + 1
    /\ orchestrators' = orchestrators \cup {s}
    /\ state' = SessionStore(state, s, InitialState(m))
    /\ pc' = SessionStore(pc, s, EdgeFrom(START))
    /\ result' = SessionStore(result, s, "running")
    /\ call' = [call EXCEPT ![s] = [op |-> "start_flow", msg |-> m,
                                    pending |-> pc[s] = "interrupted"]]
    /\ executed' = [executed EXCEPT ![s] = <<>>]
    /\ invoked' = [invoked EXCEPT ![s] = NoInvocations]
    /\ last_step' = [last_step EXCEPT ![s] = NoStep]
    /\ rerouted' = [rerouted EXCEPT ![s] = "none"]
    /\ at_suspend' = [at_suspend EXCEPT ![s] = NoState]
    /\ UNCHANGED pluginVars
    /\ UNCHANGED <<TOOLS_REGISTRY, plugin_file, plugin_module>>

\* POST /resume_flow, lines 39-47, and Orchestrator.resume_flow, on a session
\* suspended in get_next_user_message: interrupt({}) returns the message, the
\* node returns {"latest_user_message": value}, and the conditional edges follow.
ResumeFlow(s, m) ==
    /\ ~Busy(s)
    /\ calls < MaxCalls
    /\ pc[s] = "interrupted"
    /\ calls' = calls + 1
    /\ orchestrators' = orchestrators \cup {s}
    /\ state' = SessionStore(state, s, Merge(state[s], [latest_user_message |-> m]))
    /\ pc' = SessionStore(pc, s, "route_user_message")
    /\ result' = SessionStore(result, s, "running")
    /\ call' = [call EXCEPT ![s] = [op |-> "resume_flow", msg |-> m, pending |-> TRUE]]
    /\ executed' = [executed EXCEPT ![s] = <<>>]
    /\ UNCHANGED pluginVars
    /\ UNCHANGED <<TOOLS_REGISTRY, plugin_file, plugin_module, invoked, last_step,
                   rerouted, at_suspend>>

\* POST /resume_flow on a session with no pending interrupt.  Neither handler
\* nor Orchestrator.resume_flow checks for one: an unknown id gets a new
\* Orchestrator (lines 43-45) and the message goes to graph.run, where no node
\* runs and the library returns or raises.
ResumeFlowNotSuspended(s, m) ==
    /\ ~Busy(s)
    /\ calls < MaxCalls
    /\ pc[s] # "interrupted"
    /\ calls' = calls + 1
    /\ orchestrators' = orchestrators \cup {s}
    /\ pc' = SessionStore(pc, s, IF s \in orchestrators THEN pc[s] ELSE "new")
    /\ \E outcome \in {"no_pending_returned", "no_pending_raised"} :
           result' = SessionStore(result, s, outcome)
    /\ call' = [call EXCEPT ![s] = [op |-> "resume_flow", msg |-> m, pending |-> FALSE]]
    /\ executed' = [executed EXCEPT ![s] = <<>>]
    /\ UNCHANGED pluginVars
    /\ UNCHANGED <<state, TOOLS_REGISTRY, plugin_file, plugin_module, invoked,
                   last_step, rerouted, at_suspend>>

\* Mutant of ResetSession: the entry is deleted while a call of the session is
\* running on it, and the call goes on.
ResetSession_WhileRunning(s) ==
    /\ s \in orchestrators
    /\ orchestrators' = orchestrators \ {s}
    /\ call' = [call EXCEPT ![s] = [op |-> "reset_session", msg |-> <<>>, pending |-> FALSE]]
    /\ UNCHANGED pluginVars
    /\ UNCHANGED <<pc, state, result, executed, invoked, last_step, rerouted, at_suspend,
                   TOOLS_REGISTRY, plugin_file, plugin_module, calls>>

\* Mutant of ResetSession: the whole map is cleared.
ResetSession_ClearsAll(s) ==
    /\ ~Busy(s)
    /\ orchestrators' = {}
    /\ pc' = SessionStore(pc, s, "absent")
    /\ state' = SessionStore(state, s, NoState)
    /\ result' = SessionStore(result, s, "none")
    /\ call' = [call EXCEPT ![s] = [op |-> "reset_session", msg |-> <<>>, pending |-> FALSE]]
    /\ executed' = [executed EXCEPT ![s] = <<>>]
    /\ invoked' = [invoked EXCEPT ![s] = NoInvocations]
    /\ last_step' = [last_step EXCEPT ![s] = NoStep]
    /\ rerouted' = [rerouted EXCEPT ![s] = "none"]
    /\ at_suspend' = [at_suspend EXCEPT ![s] = NoState]
    /\ UNCHANGED pluginVars
    /\ UNCHANGED <<TOOLS_REGISTRY, plugin_file, plugin_module, calls>>

\* POST /reset_session, lines 57-63: the entry is deleted when present, and
\* with it the Orchestrator and the state it held; for an id that is not in
\* the map nothing is done.  call records which of the two the request was.
ResetSession(s) ==
    /\ ~Busy(s)
    /\ IF s \in orchestrators
       THEN /\ orchestrators' = orchestrators \ {s}
            /\ pc' = SessionStore(pc, s, "absent")
            /\ state' = SessionStore(state, s, NoState)
            /\ result' = SessionStore(result, s, "none")
            /\ call' = [call EXCEPT ![s] = [op |-> "reset_session", msg |-> <<>>,
                                            pending |-> FALSE]]
            /\ executed' = [executed EXCEPT ![s] = <<>>]
            /\ invoked' = [invoked EXCEPT ![s] = NoInvocations]
            /\ last_step' = [last_step EXCEPT ![s] = NoStep]
            /\ rerouted' = [rerouted EXCEPT ![s] = "none"]
            /\ at_suspend' = [at_suspend EXCEPT ![s] = NoState]
       ELSE /\ call' = [call EXCEPT ![s] = [op |-> "reset_unknown", msg |-> <<>>,
                                            pending |-> FALSE]]
            /\ UNCHANGED <<orchestrators, pc, state, result, executed, invoked,
                           last_step, rerouted, at_suspend>>
    /\ UNCHANGED pluginVars
    /\ UNCHANGED <<TOOLS_REGISTRY, plugin_file, plugin_module, calls>>

(***************************************************************************)
(* Node invocations                                                        *)
(***************************************************************************)
\* How a call stands once control is at target.
ResultAt(target) ==
    IF target = END THEN "final"
    ELSE IF target = "raised" THEN "raised"
    ELSE "running"

\* Session s is about to invoke node.
At(s, node) == result[s] = "running" /\ pc[s] = node

\* The body of node ran for session s and returned ("ok") or raised ("raised"),
\* leaving newState and control at target.
Advance(s, node, outcome, newState, target) ==
    /\ state' = SessionStore(state, s, newState)
    /\ pc' = SessionStore(pc, s, target)
    /\ result' = SessionStore(result, s, ResultAt(target))
    /\ executed' = [executed EXCEPT ![s] = Append(@, node)]
    /\ last_step' = [last_step EXCEPT ![s] = [node |-> node, outcome |-> outcome]]
    /\ UNCHANGED pluginVars
    /\ UNCHANGED <<orchestrators, calls, call, at_suspend>>

\* define_scope_with_reasoner, lines 88-98, returning through the wrapper.
DefineScopeOk(s) ==
    LET node == "define_scope_with_reasoner" IN
    /\ At(s, node)
    /\ \E text \in ReasonerTexts :
           Advance(s, node, "ok", Merge(WrapperSuccess(state[s], node), [scope |-> text]),
                   EdgeFrom(node))
    /\ invoked' = [invoked EXCEPT ![s][node] = 0]
    /\ UNCHANGED <<TOOLS_REGISTRY, plugin_file, plugin_module, rerouted>>

\* coder_agent, lines 100-105: the body returns {"messages": []} and cannot raise.
CoderAgentOk(s) ==
    LET node == "coder_agent" IN
    /\ At(s, node)
    /\ Advance(s, node, "ok", Merge(WrapperSuccess(state[s], node), [messages |-> <<>>]),
               EdgeFrom(node))
    /\ invoked' = [invoked EXCEPT ![s][node] = 0]
    /\ UNCHANGED <<TOOLS_REGISTRY, plugin_file, plugin_module, rerouted>>

\* get_next_user_message, lines 75-77, first entry: interrupt({}) suspends the run.
GetNextUserMessage(s) ==
    /\ At(s, "get_next_user_message")
    /\ pc' = SessionStore(pc, s, "interrupted")
    /\ result' = SessionStore(result, s, "suspended")
    /\ at_suspend' = [at_suspend EXCEPT ![s] = state[s]]
    /\ UNCHANGED pluginVars
    /\ UNCHANGED <<orchestrators, state, TOOLS_REGISTRY, plugin_file, plugin_module,
                   calls, call, executed, invoked, last_step, rerouted>>

\* route_user_message, lines 107-120, as the router of the conditional edges.
RouteOk(s) ==
    LET node == "route_user_message" IN
    /\ At(s, node)
    /\ Advance(s, node, "ok", WrapperSuccess(state[s], node),
               ConditionalTarget(RouteLabel(state[s]["latest_user_message"])))
    /\ invoked' = [invoked EXCEPT ![s][node] = 0]
    /\ UNCHANGED <<TOOLS_REGISTRY, plugin_file, plugin_module, rerouted>>

\* finish_conversation, lines 122-131.
FinishConversationOk(s) ==
    LET node == "finish_conversation" IN
    /\ At(s, node)
    /\ \E blob \in GoodbyeBlobs :
           Advance(s, node, "ok", Merge(WrapperSuccess(state[s], node), [messages |-> <<blob>>]),
                   EdgeFrom(node))
    /\ invoked' = [invoked EXCEPT ![s][node] = 0]
    /\ UNCHANGED <<TOOLS_REGISTRY, plugin_file, plugin_module, rerouted>>

\* The decorated nodes whose body calls a language model, which may raise.
CanRaise == {"define_scope_with_reasoner", "route_user_message", "finish_conversation"}

\* wrapper, lines 70-79: the body raised and the retries are used up; the
\* wrapper returns {"__route__": "diagnose_errors"}.
StepFailsReroute(s) ==
    \E node \in CanRaise :
        /\ At(s, node)
        /\ RetriesExhausted(state[s], node)
        /\ Advance(s, node, "raised", WrapperFailure(state[s], node, "ModelError"), "diagnose_errors")
        /\ invoked' = [invoked EXCEPT ![s][node] = @ + 1]
        /\ rerouted' = [rerouted EXCEPT ![s] = node]
        /\ UNCHANGED <<TOOLS_REGISTRY, plugin_file, plugin_module>>

\* wrapper, lines 70-81: the body raised, retries are left, the wrapper
\* re-raises, and the graph library invokes the node again.
StepFailsRetry(s) ==
    \E node \in CanRaise :
        /\ At(s, node)
        /\ ~RetriesExhausted(state[s], node)
        /\ Advance(s, node, "raised", WrapperFailure(state[s], node, "ModelError"), node)
        /\ invoked' = [invoked EXCEPT ![s][node] = @ + 1]
        /\ UNCHANGED <<TOOLS_REGISTRY, plugin_file, plugin_module, rerouted>>

\* wrapper, lines 70-81: the body raised, retries are left, the wrapper
\* re-raises, and the exception leaves graph.run.
StepFailsPropagate(s) ==
    \E node \in CanRaise :
        /\ At(s, node)
        /\ ~RetriesExhausted(state[s], node)
        /\ Advance(s, node, "raised", WrapperFailure(state[s], node, "ModelError"), "raised")
        /\ invoked' = [invoked EXCEPT ![s][node] = @ + 1]
        /\ UNCHANGED <<TOOLS_REGISTRY, plugin_file, plugin_module, rerouted>>

(***************************************************************************)
(* diagnostic_agent.py                                                     *)
(***************************************************************************)
\* diagnose_errors, lines 27-46: the feedback it may return; a failure of the
\* diagnostic agent is caught and reported as feedback.
DiagnosticFeedback(st) ==
    LET error_log == IF "error_log" \in DOMAIN st THEN st["error_log"] ELSE <<>>
    IN  IF error_log = <<>> THEN {"No errors found to diagnose."}
        ELSE DiagnosticTexts \cup {"Diagnostic Agent failed"}

\* Mutant of DiagnoseErrors: a failure of the diagnostic agent is raised and the
\* node is tried again.
DiagnoseErrors_Retries(s) ==
    LET node == "diagnose_errors" IN
    /\ At(s, node)
    /\ \E feedback \in DiagnosticFeedback(state[s]) :
           IF feedback = "Diagnostic Agent failed"
           THEN Advance(s, node, "raised", state[s], node)
           ELSE Advance(s, node, "ok", Merge(state[s], [diagnostic_feedback |-> feedback]),
                        EdgeFrom(node))
    /\ UNCHANGED <<TOOLS_REGISTRY, plugin_file, plugin_module, invoked, rerouted>>

\* diagnose_errors, lines 26-46, and its edge to END.
DiagnoseErrors(s) ==
    LET node == "diagnose_errors" IN
    /\ At(s, node)
    /\ \E feedback \in DiagnosticFeedback(state[s]) :
           Advance(s, node, "ok", Merge(state[s], [diagnostic_feedback |-> feedback]),
                   EdgeFrom(node))
    /\ UNCHANGED <<TOOLS_REGISTRY, plugin_file, plugin_module, invoked, rerouted>>


(***************************************************************************)
(* tool_generator_agent.py and plugins/plugin_manager.py                   *)
(***************************************************************************)
\* Mutant of Strip: the code is tested as it is ( if not code ).
Strip_Nothing(code) == code

\* str.strip() on a token sequence: leading and trailing blanks removed.
RECURSIVE Strip(_)
Strip(code) ==
    IF code = <<>> THEN <<>>
    ELSE IF Head(code) = " " THEN Strip(Tail(code))
    ELSE IF code[Len(code)] = " " THEN Strip(SubSeq(code, 1, Len(code) - 1))
    ELSE code

\* The tools (objects with a name and a run) a module of that code holds.
ToolsOf(code) == {tool \in ToolNames : Contains(code, <<"class " \o tool>>)}

\* importlib.import_module("plugins.tool_generated"): the module is read from
\* the file at its first import and comes from the import cache afterwards.
ImportModule(cached, file) == IF cached = "absent" THEN file ELSE cached

\* register_tool, lines 16-19, for the tools load_plugins meets: whether one of
\* them is already registered (ValueError).
AlreadyRegistered(registry, tools) == registry \cap tools # {}

\* generate_tool_code, lines 27-35: not decorated.
GenerateToolCodeOk(s) ==
    LET node == "generate_tool_code" IN
    /\ At(s, node)
    /\ \E code \in GeneratedCodes :
           Advance(s, node, "ok", Merge(state[s], [generated_code |-> code]), EdgeFrom(node))
    /\ UNCHANGED <<TOOLS_REGISTRY, plugin_file, plugin_module, invoked, rerouted>>

\* generate_tool_code: tool_generator_agent.run raises; no wrapper catches it.
GenerateToolCodeRaises(s) ==
    LET node == "generate_tool_code" IN
    /\ At(s, node)
    /\ Advance(s, node, "raised", state[s], "raised")
    /\ UNCHANGED <<TOOLS_REGISTRY, plugin_file, plugin_module, invoked, rerouted>>

\* state.get("generated_code", "")
GeneratedCode(st) == IF "generated_code" \in DOMAIN st THEN st["generated_code"] ELSE <<>>

\* finalize_new_tool, lines 38-40: nothing but blanks was generated.
FinalizeNoCode(s) ==
    LET node == "finalize_new_tool" IN
    /\ At(s, node)
    /\ Strip(GeneratedCode(state[s])) = <<>>
    /\ Advance(s, node, "ok", Merge(state[s], [tool_creation_status |-> "No code generated."]),
               EdgeFrom(node))
    /\ UNCHANGED <<TOOLS_REGISTRY, plugin_file, plugin_module, invoked, rerouted>>

\* finalize_new_tool, lines 42-50: the code is written to plugins/tool_generated.py
\* and load_plugins("plugins") imports the module and registers its tools.
FinalizeCreated(s) ==
    LET node == "finalize_new_tool"
        code == GeneratedCode(state[s])
        module == ImportModule(plugin_module, code)
    IN  /\ At(s, node)
        /\ Strip(code) # <<>>
        /\ ~AlreadyRegistered(TOOLS_REGISTRY, ToolsOf(module))
        /\ plugin_file' = code
        /\ plugin_module' = module
        /\ TOOLS_REGISTRY' = TOOLS_REGISTRY \cup ToolsOf(module)
        /\ Advance(s, node, "ok",
                   Merge(state[s], [tool_creation_status |-> "Plugin created: tool_generated.py"]),
                   EdgeFrom(node))
        /\ UNCHANGED <<invoked, rerouted>>

\* finalize_new_tool, lines 42-48: the code is written, and register_tool raises
\* ValueError on a tool that is registered already; no wrapper catches it.
FinalizeRaises(s) ==
    LET node == "finalize_new_tool"
        code == GeneratedCode(state[s])
        module == ImportModule(plugin_module, code)
    IN  /\ At(s, node)
        /\ Strip(code) # <<>>
        /\ AlreadyRegistered(TOOLS_REGISTRY, ToolsOf(module))
        /\ plugin_file' = code
        /\ plugin_module' = module
        /\ Advance(s, node, "raised", state[s], "raised")
        /\ UNCHANGED <<TOOLS_REGISTRY, invoked, rerouted>>

(***************************************************************************)
(* Specifications                                                          *)
(***************************************************************************)
Request ==
    \E s \in Sessions :
        \/ \E m \in UserMessages : StartFlow(s, m)
        \/ \E m \in UserMessages : ResumeFlow(s, m)
        \/ \E m \in UserMessages : ResumeFlowNotSuspended(s, m)
        \/ ResetSession(s)

Step ==
    \E s \in Sessions :
        \/ DefineScopeOk(s)
        \/ CoderAgentOk(s)
        \/ GetNextUserMessage(s)
        \/ RouteOk(s)
        \/ FinishConversationOk(s)
        \/ StepFailsReroute(s)
        \/ StepFailsRetry(s)
        \/ DiagnoseErrors(s)
        \/ GenerateToolCodeOk(s)
        \/ GenerateToolCodeRaises(s)
        \/ FinalizeNoCode(s)
        \/ FinalizeCreated(s)
        \/ FinalizeRaises(s)

\* The graph library answers a re-raised exception by invoking the node again.
NextLocalRetry == Request \/ Step

\* The graph library may also let a re-raised exception leave graph.run.
Next == NextLocalRetry \/ \E s \in Sessions : StepFailsPropagate(s)

Spec == Init /\ [][Next]_vars

SpecLocalRetry == Init /\ [][NextLocalRetry]_vars


(***************************************************************************)
(* The router on its own: route_user_message over every message of at most *)
(* MaxTokens tokens, each on a session resumed with that message.          *)
(***************************************************************************)
MaxTokens == 4

\* Words of a user message, in the capitalisations str.lower() has to fold.
RouteTokens == {"finish", "FINISH", "create", "Create", "tool", "NEW", "plugin", " ", "add"}

RouteMessages == UNION {[1..n -> RouteTokens] : n \in 0..MaxTokens}

\* The state of a run suspended after start_flow(MsgHello):
\* define_scope_with_reasoner and coder_agent have returned.
SuspendedState ==
    Merge(WrapperSuccess(Merge(WrapperSuccess(InitialState(MsgHello),
                                              "define_scope_with_reasoner"),
                               [scope |-> "plan"]),
                         "coder_agent"),
          [messages |-> <<>>])

\* Session s1 has just been resumed with some message; s2 was never started.
InitRoute ==
    \E m \in RouteMessages :
        /\ orchestrators = {"s1"}
        /\ pc = [s \in Sessions |-> IF s = "s1" THEN "route_user_message" ELSE "absent"]
        /\ state = [s \in Sessions |->
                       IF s = "s1" THEN Merge(SuspendedState, [latest_user_message |-> m])
                       ELSE NoState]
        /\ result = [s \in Sessions |-> IF s = "s1" THEN "running" ELSE "none"]
        /\ TOOLS_REGISTRY = {}
        /\ plugin_file = "absent"
        /\ plugin_module = "absent"
        /\ calls = 2
        /\ call = [s \in Sessions |->
                      IF s = "s1" THEN [op |-> "resume_flow", msg |-> m, pending |-> TRUE]
                      ELSE NoCall]
        /\ executed = [s \in Sessions |-> <<>>]
        /\ invoked = [s \in Sessions |-> NoInvocations]
        /\ last_step = [s \in Sessions |->
                           IF s = "s1" THEN [node |-> "coder_agent", outcome |-> "ok"]
                           ELSE NoStep]
        /\ rerouted = [s \in Sessions |-> "none"]
        /\ at_suspend = [s \in Sessions |-> IF s = "s1" THEN SuspendedState ELSE NoState]
        /\ InitPlugins

NextRoute == \E s \in Sessions : RouteOk(s)

SpecRoute == InitRoute /\ [][NextRoute]_vars

(***************************************************************************)
(* agentic-workflow/plugins/plugin_manager.py and secure_plugin_manager.py *)
(* Both managers work on the one module-level dict TOOLS_REGISTRY.  A dict *)
(* is a function on the keys present; blocked_plugins is a list, so a name *)
(* may occur in it more than once.                                         *)
(***************************************************************************)
MaxBlocked == 2
MaxMembers == 2

PluginNames == {"echo", "math"}

\* Two tool objects may carry the same name: version tells them apart.
Tools == [name : PluginNames, version : {"v1", "v2"}]

\* What verify_plugin may answer (zippy_trust_score, in tenths), and the
\* thresholds update_trust_threshold is called with.
TrustScores == {5, 7, 9}
Thresholds == {7, 8}

\* The tools one load_plugins run instantiates, in the order it meets them.
MemberLists == UNION {[1..n -> Tools] : n \in 0..MaxMembers}

\* d[k] = v
Put(d, k, v) == [x \in DOMAIN d \cup {k} |-> IF x = k THEN v ELSE d[x]]

\* del d[k]
Del(d, k) == [x \in DOMAIN d \ {k} |-> d[x]]

\* list.remove(x): drops the first occurrence of x, which must be present.
ListRemove(list, x) ==
    LET i == CHOOSE i \in 1..Len(list) : list[i] = x /\ \A j \in 1..(i - 1) : list[j] # x
    IN SubSeq(list, 1, i - 1) \o SubSeq(list, i + 1, Len(list))

\* x in list
InList(list, x) == \E i \in 1..Len(list) : list[i] = x

\* Mutant of register_tool: a registered name is overwritten, nothing raised.
register_tool_Overwrites(registry, tool) ==
    [registry |-> Put(registry, tool.name, tool), raised |-> "none"]

\* plugin_manager.register_tool, lines 25-31 (zippy-archon: 16-19).
register_tool(registry, tool) ==
    IF tool.name \in DOMAIN registry
    THEN [registry |-> registry, raised |-> "ValueError"]
    ELSE [registry |-> Put(registry, tool.name, tool), raised |-> "none"]

\* plugin_manager.load_plugins, lines 33-68 (zippy-archon: 21-39): each tool
\* found is registered in turn; nothing catches what register_tool raises.
RECURSIVE load_plugins(_, _)
load_plugins(registry, members) ==
    IF members = <<>>
    THEN [registry |-> registry, raised |-> "none"]
    ELSE LET r == register_tool(registry, Head(members))
         IN IF r.raised # "none" THEN r ELSE load_plugins(r.registry, Tail(members))

\* No plugin-manager operation touches the sessions or the marketplace.
ManagerFrame ==
    UNCHANGED <<orchestrators, pc, state, result, TOOLS_REGISTRY, plugin_file, plugin_module,
                calls, call, executed, invoked, last_step, rerouted, at_suspend,
                marketplace, market_call>>

ManagerCall(op, arg, outcome) == [op |-> op, arg |-> arg, result |-> outcome]

RegisterTool(tool) ==
    LET r == register_tool(manager.TOOLS_REGISTRY, tool)
    IN /\ manager' = [manager EXCEPT !.TOOLS_REGISTRY = r.registry]
       /\ manager_call' = ManagerCall("register_tool", <<tool>>, r.raised)
       /\ ManagerFrame

LoadPlugins(members) ==
    LET r == load_plugins(manager.TOOLS_REGISTRY, members)
    IN /\ manager' = [manager EXCEPT !.TOOLS_REGISTRY = r.registry]
       /\ manager_call' = ManagerCall("load_plugins", members, r.raised)
       /\ ManagerFrame

\* Mutant of BelowThreshold: no score is ever too low.
BelowThreshold_Never(score, threshold) == FALSE

\* trust_score.zippy_trust_score < self.trust_threshold, lines 52, 208, 244.
BelowThreshold(score, threshold) == score < threshold

\* SecurePluginManager.register_tool with verification, lines 36-74, when
\* verify_plugin answers with score: score and metadata are stored first; a
\* score below the threshold appends the name to blocked_plugins and raises.
SecureRegisterTool(tool, score) ==
    LET stored == [manager EXCEPT !.trust_scores = Put(@, tool.name, score),
                                  !.plugin_metadata = Put(@, tool.name, tool)]
    IN /\ IF BelowThreshold(score, manager.trust_threshold)
          THEN /\ Len(manager.blocked_plugins) < MaxBlocked
               /\ manager' = [stored EXCEPT !.blocked_plugins = Append(@, tool.name)]
               /\ manager_call' =
                      ManagerCall("secure_register_tool", <<tool>>, "SecurityException")
          ELSE /\ manager' = [stored EXCEPT !.TOOLS_REGISTRY = Put(@, tool.name, tool)]
               /\ manager_call' = ManagerCall("secure_register_tool", <<tool>>, "ok")
       /\ ManagerFrame

\* The same, lines 37-46 and 62-67, when extraction or verify_plugin raises
\* (asyncio.run refuses to run inside a running event loop).
SecureRegisterToolUnverified(tool) ==
    /\ manager' = manager
    /\ manager_call' =
           ManagerCall("secure_register_tool", <<tool>>, "PluginVerificationException")
    /\ ManagerFrame

\* SecurePluginManager.force_register_tool, lines 211-214 and 69-74.
ForceRegisterTool(tool) ==
    /\ manager' = [manager EXCEPT !.TOOLS_REGISTRY = Put(@, tool.name, tool)]
    /\ manager_call' = ManagerCall("force_register_tool", <<tool>>, "ok")
    /\ ManagerFrame

\* SecurePluginManager.unregister_tool, lines 216-229.
UnregisterTool(tool_name) ==
    /\ manager' = [manager EXCEPT
           !.TOOLS_REGISTRY = Del(@, tool_name),
           !.trust_scores = Del(@, tool_name),
           !.plugin_metadata = Del(@, tool_name),
           !.blocked_plugins = IF InList(@, tool_name) THEN ListRemove(@, tool_name) ELSE @]
    /\ manager_call' = ManagerCall("unregister_tool", <<tool_name>>, "ok")
    /\ ManagerFrame

\* Iteration order of a dict whose keys are names.
NameOrder == <<"echo", "math">>

\* [name for name in NameOrder if keep(name)]
RECURSIVE NamesIn(_, _)
NamesIn(order, keep) ==
    IF order = <<>> THEN <<>>
    ELSE (IF Head(order) \in keep THEN <<Head(order)>> ELSE <<>>) \o NamesIn(Tail(order), keep)

\* SecurePluginManager.update_trust_threshold, lines 201-209: the blocked list
\* is rebuilt from the recorded scores.
UpdateTrustThreshold(new_threshold) ==
    /\ manager' = [manager EXCEPT
           !.trust_threshold = new_threshold,
           !.blocked_plugins =
               NamesIn(NameOrder, {n \in DOMAIN manager.trust_scores :
                                       BelowThreshold(manager.trust_scores[n], new_threshold)})]
    /\ manager_call' = ManagerCall("update_trust_threshold", <<new_threshold>>, "ok")
    /\ ManagerFrame

\* How one verification inside refresh_trust_scores ends: with a score, or
\* with an exception (which skips the tool).
VerifyAnswers == [raises : {FALSE}, score : TrustScores] \cup {[raises |-> TRUE, score |-> 0]}

\* One round of the loop of refresh_trust_scores, lines 236-254, for a tool
\* of the registry.
RefreshOne(m, tool_name, answer) ==
    IF answer.raises THEN m
    ELSE LET scored == [m EXCEPT !.trust_scores = Put(@, tool_name, answer.score)]
         IN IF BelowThreshold(answer.score, m.trust_threshold)
            THEN IF InList(m.blocked_plugins, tool_name) THEN scored
                 ELSE [scored EXCEPT !.blocked_plugins = Append(@, tool_name)]
            ELSE IF InList(m.blocked_plugins, tool_name)
                 THEN [scored EXCEPT !.blocked_plugins = ListRemove(@, tool_name)]
                 ELSE scored

RECURSIVE RefreshAll(_, _, _)
RefreshAll(m, order, answers) ==
    IF order = <<>> THEN m
    ELSE RefreshAll(RefreshOne(m, Head(order), answers[Head(order)]), Tail(order), answers)

\* SecurePluginManager.refresh_trust_scores, lines 231-256: every tool of the
\* registry is verified again.
RefreshTrustScores ==
    \E answers \in [DOMAIN manager.TOOLS_REGISTRY -> VerifyAnswers] :
        LET refreshed == RefreshAll(manager, NamesIn(NameOrder, DOMAIN manager.TOOLS_REGISTRY),
                                    answers)
        IN /\ Len(refreshed.blocked_plugins) <= MaxBlocked
           /\ manager' = refreshed
           /\ manager_call' = ManagerCall("refresh_trust_scores", <<>>, "ok")
           /\ ManagerFrame

\* SecurePluginManager.get_tool_by_name, lines 150-160.
get_tool_by_name(m, name) ==
    IF name \notin DOMAIN m.TOOLS_REGISTRY THEN "None"
    ELSE IF InList(m.blocked_plugins, name) THEN "SecurityException"
    ELSE m.TOOLS_REGISTRY[name]

\* plugin_manager.py on its own: tools are registered one by one or by a
\* load_plugins run.
NextRegistry ==
    \/ \E tool \in Tools : RegisterTool(tool)
    \/ \E members \in MemberLists : LoadPlugins(members)

SpecRegistry == Init /\ [][NextRegistry]_vars

\* The operations of a SecurePluginManager.
NextPlugins ==
    \/ \E tool \in Tools, score \in TrustScores : SecureRegisterTool(tool, score)
    \/ \E tool \in Tools : SecureRegisterToolUnverified(tool)
    \/ \E tool \in Tools : ForceRegisterTool(tool)
    \/ \E tool_name \in PluginNames : UnregisterTool(tool_name)
    \/ \E new_threshold \in Thresholds : UpdateTrustThreshold(new_threshold)
    \/ RefreshTrustScores

SpecPlugins == Init /\ [][NextPlugins]_vars

(***************************************************************************)
(* agentic-workflow/plugins/marketplace.py: ZippyCoinMarketplace.  One     *)
(* action is one call running to its return; the coin API and the trust    *)
(* verification are outside the repository and answer as they please.      *)
(* Prices and balances are small integers, trust scores are in tenths.     *)
(***************************************************************************)
MaxPurchases == 2

PluginIds == {"p1", "p2"}
Wallets == {"alice", "bob"}
Prices == {1, 2}
Balances == {1, 2}

\* "High trust threshold for marketplace", list_plugin line 160: 0.8.
marketplace_trust_threshold == 8

\* The PluginListing objects list_plugin is called with: "p2" is an id nobody
\* lists, so it stays unknown to the marketplace.
NewListings ==
    [plugin_id : {"p1"}, author : Wallets, price_zippycoin : Prices, download_count : {0}]

\* The updates dicts update_plugin_listing is called with: a field and a value.
Updates == [field : {"price_zippycoin"}, value : Prices]
               \cup {[field |-> "status", value |-> "active"]}

MarketFrame ==
    UNCHANGED <<orchestrators, pc, state, result, TOOLS_REGISTRY, plugin_file, plugin_module,
                calls, call, executed, invoked, last_step, rerouted, at_suspend,
                manager, manager_call>>

MarketCall(op, plugin_id, wallet, outcome, balance, transfer) ==
    [op |-> op, plugin_id |-> plugin_id, wallet |-> wallet, result |-> outcome,
     balance |-> balance, transfer |-> transfer]

\* list_plugin, lines 136-177, when the verification answers with score:
\* seller_wallet is not looked at, and a listing already kept under the
\* plugin id is replaced.
ListPlugin(plugin, seller_wallet, score) ==
    /\ IF score >= marketplace_trust_threshold
       THEN /\ marketplace' = [marketplace EXCEPT !.listings =
                    Put(@, plugin.plugin_id,
                        [author |-> plugin.author, price_zippycoin |-> plugin.price_zippycoin,
                         status |-> "active", download_count |-> plugin.download_count])]
            /\ market_call' =
                   MarketCall("list_plugin", plugin.plugin_id, seller_wallet, "true", 0, FALSE)
       ELSE /\ marketplace' = marketplace
            /\ market_call' =
                   MarketCall("list_plugin", plugin.plugin_id, seller_wallet, "false", 0, FALSE)
    /\ MarketFrame

\* Mutant of Affordable: any balance will do.
Affordable_Always(balance, price) == TRUE

\* not (balance < listing.price_zippycoin), line 192.
Affordable(balance, price) == ~(balance < price)

\* The checks of purchase_plugin, lines 181-206, with balance what get_balance
\* answers and transfer whether the transfer reports success.
Purchasable(listings, plugin_id, balance, transfer) ==
    /\ plugin_id \in DOMAIN listings
    /\ listings[plugin_id].status = "active"
    /\ Affordable(balance, listings[plugin_id].price_zippycoin)
    /\ transfer

\* purchase_plugin returning at line 183, 186, 193 or 235.
PurchasePluginRefused(plugin_id, buyer_wallet, balance, transfer) ==
    /\ ~Purchasable(marketplace.listings, plugin_id, balance, transfer)
    /\ marketplace' = marketplace
    /\ market_call' =
           MarketCall("purchase_plugin", plugin_id, buyer_wallet, "failure", balance, transfer)
    /\ MarketFrame

\* Lines 208-224: the transaction is appended and the download count raised.
Purchased(m, plugin_id, buyer_wallet) ==
    LET listing == m.listings[plugin_id]
    IN [m EXCEPT
           !.transactions = Append(@, [plugin_id |-> plugin_id, buyer_wallet |-> buyer_wallet,
                                       seller_wallet |-> listing.author,
                                       amount |-> listing.price_zippycoin,
                                       status |-> "completed"]),
           !.listings[plugin_id].download_count = @ + 1]

\* purchase_plugin past line 206.  _grant_plugin_access (243-263) writes a
\* file after the records are made; when that fails, line 240 turns the
\* exception into success = false.
PurchasePluginRecorded(plugin_id, buyer_wallet, balance, transfer, granted) ==
    /\ Len(marketplace.transactions) < MaxPurchases
    /\ Purchasable(marketplace.listings, plugin_id, balance, transfer)
    /\ marketplace' = Purchased(marketplace, plugin_id, buyer_wallet)
    /\ market_call' =
           MarketCall("purchase_plugin", plugin_id, buyer_wallet,
                      IF granted THEN "success" ELSE "failure", balance, transfer)
    /\ MarketFrame

\* update_plugin_listing, lines 314-330: only the allowed fields are set.
UpdatePluginListing(plugin_id, updates) ==
    /\ IF plugin_id \notin DOMAIN marketplace.listings
       THEN /\ marketplace' = marketplace
            /\ market_call' =
                   MarketCall("update_plugin_listing", plugin_id, "none", "false", 0, FALSE)
       ELSE /\ marketplace' =
                   IF updates.field = "price_zippycoin"
                   THEN [marketplace EXCEPT !.listings[plugin_id].price_zippycoin = updates.value]
                   ELSE marketplace
            /\ market_call' =
                   MarketCall("update_plugin_listing", plugin_id, "none", "true", 0, FALSE)
    /\ MarketFrame

\* Mutant of MayRemove: any wallet may remove a listing.
MayRemove_Anyone(listings, plugin_id, author_wallet) == plugin_id \in DOMAIN listings

\* not (not listing or listing.author != author_wallet), line 335.
MayRemove(listings, plugin_id, author_wallet) ==
    /\ plugin_id \in DOMAIN listings
    /\ listings[plugin_id].author = author_wallet

\* remove_plugin_listing, lines 332-342.
RemovePluginListing(plugin_id, author_wallet) ==
    /\ IF MayRemove(marketplace.listings, plugin_id, author_wallet)
       THEN /\ marketplace' = [marketplace EXCEPT !.listings[plugin_id].status = "inactive"]
            /\ market_call' =
                   MarketCall("remove_plugin_listing", plugin_id, author_wallet, "true", 0, FALSE)
       ELSE /\ marketplace' = marketplace
            /\ market_call' =
                   MarketCall("remove_plugin_listing", plugin_id, author_wallet, "false", 0, FALSE)
    /\ MarketFrame

\* search_plugins, lines 265-294, by price: the ids of the listings returned
\* (max_price 0 stands for None, no limit).
search_plugins(listings, max_price) ==
    {id \in DOMAIN listings :
        /\ listings[id].status = "active"
        /\ ~(max_price # 0 /\ listings[id].price_zippycoin > max_price)}

NextMarket ==
    \/ \E plugin \in NewListings, seller_wallet \in Wallets, score \in TrustScores :
           ListPlugin(plugin, seller_wallet, score)
    \/ \E plugin_id \in PluginIds, buyer_wallet \in Wallets, balance \in Balances,
          transfer \in BOOLEAN :
           PurchasePluginRefused(plugin_id, buyer_wallet, balance, transfer)
    \/ \E plugin_id \in PluginIds, buyer_wallet \in Wallets, balance \in Balances,
          transfer \in BOOLEAN, granted \in BOOLEAN :
           PurchasePluginRecorded(plugin_id, buyer_wallet, balance, transfer, granted)
    \/ \E plugin_id \in PluginIds, updates \in Updates : UpdatePluginListing(plugin_id, updates)
    \/ \E plugin_id \in PluginIds, author_wallet \in Wallets :
           RemovePluginListing(plugin_id, author_wallet)

SpecMarket == Init /\ [][NextMarket]_vars

(***************************************************************************)
(* Properties                                                              *)
(***************************************************************************)
IsPrefix(a, b) == Len(a) <= Len(b) /\ SubSeq(b, 1, Len(a)) = a

Range(seq) == {seq[i] : i \in 1..Len(seq)}

ErrorLog(s) == IF "error_log" \in DOMAIN state[s] THEN state[s]["error_log"] ELSE <<>>

ErrorRetries(s) ==
    IF "error_retries" \in DOMAIN state[s] THEN state[s]["error_retries"] ELSE EmptyDict

\* C1: when a run has just been rerouted to diagnose_errors by the failures of
\* a step with max_retries = n, the body of that step has been invoked exactly
\* n times since its last success, and error_retries[step] = n.
C1_RetryBound ==
    \A s \in Sessions :
        (pc[s] = "diagnose_errors" /\ rerouted[s] # "none") =>
            /\ invoked[s][rerouted[s]] = max_retries(rerouted[s])
            /\ rerouted[s] \in DOMAIN ErrorRetries(s)
            /\ ErrorRetries(s)[rerouted[s]] = max_retries(rerouted[s])

\* A run was rerouted after two failed invocations of define_scope_with_reasoner.
C1_Witness ==
    \E s \in Sessions :
        /\ pc[s] = "diagnose_errors"
        /\ rerouted[s] = "define_scope_with_reasoner"
        /\ executed[s] = <<"define_scope_with_reasoner", "define_scope_with_reasoner">>

\* C2: no step failure leaves a run aborted: a call never ends with the
\* exception of a step leaving start_flow or resume_flow (every failing run
\* goes on to END through diagnose_errors).
C2_NoRunAborted == \A s \in Sessions : result[s] # "raised"

\* C3: whenever the latest body invocation of a session raised, the exception
\* did not reach the caller, the failure is the last entry of error_log, and
\* control is at the same step (retry) or at diagnose_errors (reroute).
C3_FailuresContained ==
    \A s \in Sessions :
        last_step[s].outcome = "raised" =>
            /\ result[s] # "raised"
            /\ ErrorLog(s) # <<>>
            /\ ErrorLog(s)[Len(ErrorLog(s))].node = last_step[s].node
            /\ pc[s] \in {last_step[s].node, "diagnose_errors"}

\* C4: after a successful execution of a decorated step its retry count is 0.
C4_ResetOnSuccess ==
    \A s \in Sessions :
        (last_step[s].outcome = "ok" /\ last_step[s].node \in DecoratedNodes) =>
            /\ last_step[s].node \in DOMAIN ErrorRetries(s)
            /\ ErrorRetries(s)[last_step[s].node] = 0

\* define_scope_with_reasoner failed once and then succeeded.
C4_Witness ==
    \E s \in Sessions :
        /\ executed[s] = <<"define_scope_with_reasoner", "define_scope_with_reasoner">>
        /\ last_step[s] = [node |-> "define_scope_with_reasoner", outcome |-> "ok"]
        /\ Len(ErrorLog(s)) = 1

\* C5: once a run has been rerouted, the only node invoked after the failing
\* step is diagnose_errors, and END follows it: control is at diagnose_errors
\* right after the failure, and at END after diagnose_errors has run.
C5_EscalationTerminal ==
    \A s \in Sessions :
        rerouted[s] # "none" =>
            \/ pc[s] = "diagnose_errors" /\ last_step[s].node = rerouted[s]
            \/ pc[s] = END /\ last_step[s].node = "diagnose_errors"

\* A rerouted run has passed diagnose_errors.
C5_Witness ==
    \E s \in Sessions :
        /\ rerouted[s] = "define_scope_with_reasoner"
        /\ last_step[s].node = "diagnose_errors"
        /\ pc[s] = END
        /\ "diagnostic_feedback" \in DOMAIN state[s]

\* C6: a resume_flow on a session with no pending suspension fails with
\* SessionNotSuspendedError and runs no step.
C6_ResumeNeedsSuspension ==
    \A s \in Sessions :
        (call[s].op = "resume_flow" /\ ~call[s].pending) =>
            /\ result[s] = "SessionNotSuspendedError"
            /\ executed[s] = <<>>

\* C7: a run suspended by start_flow(m1) holds latest_user_message = m1; after
\* resume_flow(m2) the state holds latest_user_message = m2 and its messages
\* start with the messages held at the suspension.
C7_SuspendResumeRoundTrip ==
    \A s \in Sessions :
        /\ (call[s].op = "start_flow" /\ result[s] = "suspended") =>
               state[s]["latest_user_message"] = call[s].msg
        /\ (call[s].op = "resume_flow" /\ call[s].pending) =>
               /\ state[s]["latest_user_message"] = call[s].msg
               /\ IsPrefix(at_suspend[s]["messages"], state[s]["messages"])

\* A resumed run went on to finish_conversation, which appended its message.
C7_Witness ==
    \E s \in Sessions :
        /\ call[s].op = "resume_flow"
        /\ call[s].pending
        /\ result[s] = "final"
        /\ state[s]["messages"] = <<"goodbye">>
        /\ state[s]["latest_user_message"] = MsgFinish

\* C8: during a resume_flow call the first step invoked is route_user_message,
\* define_scope_with_reasoner is not invoked, and coder_agent is invoked only
\* when the label of the new message is coder_agent.
C8_ResumeEntersAtRoute ==
    \A s \in Sessions :
        call[s].op = "resume_flow" =>
            /\ executed[s] # <<>> => executed[s][1] = "route_user_message"
            /\ "define_scope_with_reasoner" \notin Range(executed[s])
            /\ "coder_agent" \in Range(executed[s]) =>
                   RouteLabel(call[s].msg) = "coder_agent"

\* A resumed run invoked route_user_message and then coder_agent.
C8_Witness ==
    \E s \in Sessions :
        /\ call[s].op = "resume_flow"
        /\ executed[s] = <<"route_user_message", "coder_agent">>

\* The fields of a session the isolation claim is about.
Isolated(st) ==
    [k \in DOMAIN st \cap {"error_log", "messages", "error_retries"} |-> st[k]]

\* Session s took a step or made a request in this transition.
Acts(s) ==
    \/ pc'[s] # pc[s]
    \/ result'[s] # result[s]
    \/ executed'[s] # executed[s]
    \/ call'[s] # call[s]

\* C9: a step or request of one session leaves the error_log, messages and
\* error_retries of every other session unchanged.
C9_SessionIsolation ==
    [][\A s \in Sessions : \A other \in Sessions \ {s} :
           Acts(s) => Isolated(state'[other]) = Isolated(state[other])]_vars

\* Two sessions are in flight at once, one with logged errors, one without.
C9_Witness ==
    \E s \in Sessions : \E other \in Sessions \ {s} :
        /\ result[s] = "running" /\ Len(ErrorLog(s)) = 1
        /\ result[other] = "running" /\ executed[other] # <<>> /\ ErrorLog(other) = <<>>

\* The error fields of a session that stays in the map are kept by this transition.
ErrorFieldsKept(s) ==
    /\ IsPrefix(ErrorLog(s), IF "error_log" \in DOMAIN state'[s]
                             THEN state'[s]["error_log"] ELSE <<>>)
    /\ DOMAIN ErrorRetries(s) \subseteq
           DOMAIN (IF "error_retries" \in DOMAIN state'[s]
                   THEN state'[s]["error_retries"] ELSE EmptyDict)
    /\ "error_log" \in DOMAIN state[s] => "error_log" \in DOMAIN state'[s]
    /\ "error_retries" \in DOMAIN state[s] => "error_retries" \in DOMAIN state'[s]

\* The first step of a session finds error_log and error_retries empty.
ErrorFieldsEmptyAtFirstStep ==
    \A s \in Sessions :
        (result[s] = "running" /\ executed[s] = <<>> /\ call[s].op = "start_flow") =>
            ErrorLog(s) = <<>> /\ ErrorRetries(s) = EmptyDict

\* This transition is a start_flow on session s.
StartsFlow(s) ==
    /\ calls' = calls + 1
    /\ call'[s].op = "start_flow"
    /\ pc'[s] = EdgeFrom(START)
    /\ state'[s] = InitialState(call'[s].msg)

\* C10 as stated: error_log and error_retries are empty at the first step of a
\* session, and no operation on a session that stays in the map empties or
\* replaces them.
C10_NeverReset ==
    /\ []ErrorFieldsEmptyAtFirstStep
    /\ [][\A s \in Sessions :
              (s \in orchestrators /\ s \in orchestrators') => ErrorFieldsKept(s)]_vars

\* C10 amended: error_log and error_retries are empty at the first step of a
\* session, and no operation on a session that stays in the map other than
\* start_flow empties or replaces them; start_flow replaces them by empty ones.
C10_ResetOnlyByStartFlow ==
    /\ []ErrorFieldsEmptyAtFirstStep
    /\ [][\A s \in Sessions :
              (s \in orchestrators /\ s \in orchestrators') =>
                  ErrorFieldsKept(s) \/ StartsFlow(s)]_vars

\* A resumed run goes on with the error logged before its suspension.
C10_Witness ==
    \E s \in Sessions :
        /\ call[s].op = "resume_flow"
        /\ call[s].pending
        /\ executed[s] # <<>>
        /\ Len(ErrorLog(s)) = 1
        /\ ErrorLog(s) = at_suspend[s]["error_log"]

\* C11: within a run (a start_flow and the resume_flow calls that follow it)
\* the error_log only grows at its end: over every transition that is not a
\* start_flow or a reset of the session, the log before is a prefix of the log
\* after.
C11_ErrorLogAppendOnly ==
    [][\A s \in Sessions :
           (s \in orchestrators' /\ ~StartsFlow(s)) => IsPrefix(ErrorLog(s), ErrorLog(s)')]_vars

\* A resumed run logged a failure of route_user_message after the failure of
\* define_scope_with_reasoner logged before the suspension.
C11_Witness ==
    \E s \in Sessions :
        /\ call[s].op = "resume_flow"
        /\ call[s].pending
        /\ Len(at_suspend[s]["error_log"]) = 1
        /\ Len(ErrorLog(s)) = 2
        /\ ErrorLog(s)[1].node = "define_scope_with_reasoner"
        /\ ErrorLog(s)[2].node = "route_user_message"

\* Some word of the message is w, whatever its capitalisation.
HasWord(m, w) == \E i \in 1..Len(m) : LowerToken(m[i]) = w

\* The message holds the words a and b with one blank between them, whatever
\* their capitalisation.
HasPhrase(m, a, b) ==
    \E i \in 1..(Len(m) - 2) :
        LowerToken(m[i]) = a /\ m[i + 1] = " " /\ LowerToken(m[i + 2]) = b

\* The label the routing rule gives a message.
ExpectedLabel(m) ==
    IF HasWord(m, "finish") THEN "finish_conversation"
    ELSE IF HasPhrase(m, "create", "tool") \/ HasPhrase(m, "new", "plugin") THEN "create_tool"
    ELSE "coder_agent"

\* C12: for every message, route_user_message yields finish_conversation if
\* the message contains "finish" in any capitalisation, otherwise create_tool
\* if it contains "create tool" or "new plugin", otherwise coder_agent; the
\* label is one of the three, and after the router has returned control is at
\* the node the conditional edges give that label.
C12_RouteClassification ==
    \A s \in Sessions :
        "latest_user_message" \in DOMAIN state[s] =>
            LET m == state[s]["latest_user_message"] IN
            /\ RouteLabel(m) \in {"coder_agent", "finish_conversation", "create_tool"}
            /\ RouteLabel(m) = ExpectedLabel(m)
            /\ last_step[s] = [node |-> "route_user_message", outcome |-> "ok"] =>
                   pc[s] = CASE ExpectedLabel(m) = "finish_conversation" -> "finish_conversation"
                             [] ExpectedLabel(m) = "create_tool" -> "generate_tool_code"
                             [] OTHER -> "coder_agent"

\* The router has returned on a message holding "Create tool" and "FINISH":
\* finish_conversation is next.
C12_Witness ==
    \E s \in Sessions :
        /\ last_step[s] = [node |-> "route_user_message", outcome |-> "ok"]
        /\ state[s]["latest_user_message"] = <<"Create", " ", "tool", "FINISH">>
        /\ pc[s] = "finish_conversation"

\* The node a control position stands for: a suspended run waits in
\* get_next_user_message.
NodeOf(p) == IF p = "interrupted" THEN "get_next_user_message" ELSE p

\* The edges between nodes, reroutes aside.
GraphEdges ==
    {<<"define_scope_with_reasoner", "coder_agent">>,
     <<"coder_agent", "get_next_user_message">>,
     <<"get_next_user_message", "route_user_message">>,
     <<"route_user_message", "coder_agent">>,
     <<"route_user_message", "finish_conversation">>,
     <<"route_user_message", "generate_tool_code">>,
     <<"finish_conversation", END>>,
     <<"generate_tool_code", "finalize_new_tool">>,
     <<"finalize_new_tool", END>>,
     <<"diagnose_errors", END>>}

\* C14: every move of a session's control to another node or to END follows
\* the edge set: a start_flow enters define_scope_with_reasoner from START, a
\* reroute leads from the failed node to diagnose_errors, and every other
\* move is one of the edges of GraphEdges.
C14_TransitionsFollowEdges ==
    [][\A s \in Sessions :
           LET from == NodeOf(pc[s])
               to == NodeOf(pc'[s])
           IN  (to \in Nodes \cup {END} /\ (to # from \/ StartsFlow(s))) =>
                   \/ StartsFlow(s) /\ to = "define_scope_with_reasoner"
                   \/ from \in Nodes /\ <<from, to>> \in GraphEdges
                   \/ from \in Nodes /\ to = "diagnose_errors" /\ rerouted'[s] = from]_vars

\* A resumed run took the conditional edge to generate_tool_code and went on
\* through finalize_new_tool to END.
C14_Witness ==
    \E s \in Sessions :
        /\ executed[s] = <<"route_user_message", "generate_tool_code", "finalize_new_tool">>
        /\ pc[s] = END

\* The fields of AgentState.
StateFields ==
    {"latest_user_message", "messages", "scope", "error_log", "error_retries",
     "generated_code", "tool_creation_status", "diagnostic_feedback"}

\* C15: when a start_flow(m) call is about to run its first step, control is
\* at the node after START, latest_user_message is m, messages, scope,
\* error_log and error_retries are empty, and generated_code,
\* tool_creation_status and diagnostic_feedback are unset, whatever the
\* session held before.
C15_StartFlowFromScratch ==
    \A s \in Sessions :
        (call[s].op = "start_flow" /\ result[s] = "running" /\ executed[s] = <<>>) =>
            /\ pc[s] = "define_scope_with_reasoner"
            /\ DOMAIN state[s] \subseteq StateFields
            /\ {"generated_code", "tool_creation_status", "diagnostic_feedback"}
                   \cap DOMAIN state[s] = {}
            /\ state[s]["latest_user_message"] = call[s].msg
            /\ state[s]["messages"] = <<>>
            /\ state[s]["scope"] = ""
            /\ state[s]["error_log"] = <<>>
            /\ DOMAIN state[s]["error_retries"] = {}

\* start_flow was called on a session suspended in an earlier run (which held
\* a scope and retry counts), and is about to run its first step.
C15_Witness ==
    \E s \in Sessions :
        /\ call[s].op = "start_flow"
        /\ call[s].pending
        /\ result[s] = "running"
        /\ executed[s] = <<>>
        /\ state[s]["latest_user_message"] = MsgTool

\* C16: a start_flow call, or a resume_flow call on a suspended session, that
\* is over has executed at most one step per node of the graph, retries
\* aside, and has left the session suspended in get_next_user_message or at END.
C16_CallsEndSuspendedOrAtEnd ==
    \A s \in Sessions :
        ((call[s].op = "start_flow" \/ call[s].pending) /\ result[s] # "running") =>
            /\ pc[s] \in {"interrupted", END}
            /\ result[s] \in {"suspended", "final"}
            /\ Cardinality(Range(executed[s])) <= Cardinality(Nodes)

\* The code is empty or holds nothing but blanks.
Blank(code) == \A i \in 1..Len(code) : code[i] = " "

\* C17: when finalize_new_tool runs on a generated_code that is empty or all
\* blanks, it sets tool_creation_status to "No code generated." and goes on to
\* END; the plugin file, the imported module and the registry stay as they were.
C17_NoCodeNoEffect ==
    [][\A s \in Sessions :
           (At(s, "finalize_new_tool") /\ Blank(GeneratedCode(state[s])) /\ pc'[s] # pc[s]) =>
               /\ "tool_creation_status" \in DOMAIN state'[s]
               /\ state'[s]["tool_creation_status"] = "No code generated."
               /\ pc'[s] = END
               /\ UNCHANGED <<TOOLS_REGISTRY, plugin_file, plugin_module>>]_vars

\* finalize_new_tool has run on a code of one blank, with no plugin written.
C17_Witness ==
    \E s \in Sessions :
        /\ last_step[s] = [node |-> "finalize_new_tool", outcome |-> "ok"]
        /\ GeneratedCode(state[s]) = <<" ">>
        /\ state[s]["tool_creation_status"] = "No code generated."
        /\ plugin_file = "absent"

\* C18: whenever finalize_new_tool runs on a generated_code that is not blank,
\* the code is written to the plugin file, tool_creation_status becomes
\* "Plugin created: tool_generated.py" and the run reaches END, in the first
\* tool-creation run of the process and in every later one, of any session.
C18_ToolCreationCompletes ==
    [][\A s \in Sessions :
           (At(s, "finalize_new_tool") /\ ~Blank(GeneratedCode(state[s])) /\ pc'[s] # pc[s]) =>
               /\ plugin_file' = GeneratedCode(state[s])
               /\ "tool_creation_status" \in DOMAIN state'[s]
               /\ state'[s]["tool_creation_status"] = "Plugin created: tool_generated.py"
               /\ pc'[s] = END]_vars

\* C19: an id enters the session map only through a start_flow on that id and
\* leaves it only through a reset_session on that id; no other request or
\* step adds or removes an entry.
C19_EntriesByStartAndReset ==
    [][\A s \in Sessions :
           /\ (s \notin orchestrators /\ s \in orchestrators') => call'[s].op = "start_flow"
           /\ (s \in orchestrators /\ s \notin orchestrators') =>
                  call'[s].op = "reset_session"]_vars

\* The state a start_flow(m) hands to the graph, field by field.
FreshState(st, m) ==
    /\ DOMAIN st = {"latest_user_message", "messages", "scope", "error_log", "error_retries"}
    /\ st["latest_user_message"] = m
    /\ st["messages"] = <<>>
    /\ st["scope"] = ""
    /\ st["error_log"] = <<>>
    /\ DOMAIN st["error_retries"] = {}

\* This transition is a reset_session request on session s.
Resets(s) == Acts(s) /\ call'[s].op \in {"reset_session", "reset_unknown"}

\* C20: after reset_session(id) the map has no entry for id and nothing of
\* the discarded Orchestrator is left; the request leaves the entry, control
\* and state of every other session as they were; a start_flow(id) that
\* follows runs on the fresh initial state alone; and a reset_session of an id
\* that is not in the map changes nothing.
C20_ResetDiscardsOneSession ==
    /\ [](\A s \in Sessions :
              call[s].op \in {"reset_session", "reset_unknown"} =>
                  /\ s \notin orchestrators
                  /\ pc[s] = "absent"
                  /\ state[s] = NoState
                  /\ at_suspend[s] = NoState)
    /\ [][\A s \in Sessions :
              /\ Resets(s) =>
                     /\ \A other \in Sessions \ {s} :
                            /\ (other \in orchestrators') = (other \in orchestrators)
                            /\ state'[other] = state[other]
                            /\ pc'[other] = pc[other]
                            /\ result'[other] = result[other]
                     /\ UNCHANGED <<TOOLS_REGISTRY, plugin_file, plugin_module>>
              /\ (Resets(s) /\ s \notin orchestrators) =>
                     UNCHANGED <<orchestrators, pc, state, result, TOOLS_REGISTRY,
                                 plugin_file, plugin_module>>
              /\ (call[s].op = "reset_session" /\ call'[s].op = "start_flow") =>
                     /\ s \in orchestrators'
                     /\ FreshState(state'[s], call'[s].msg)
                     /\ pc'[s] = "define_scope_with_reasoner"]_vars

\* A session was reset while the other one stayed suspended with its state.
C20_Witness ==
    \E s \in Sessions : \E other \in Sessions \ {s} :
        /\ call[s].op = "reset_session"
        /\ s \notin orchestrators
        /\ other \in orchestrators
        /\ result[other] = "suspended"
        /\ state[other]["scope"] = "plan"

\* This transition is a request (start_flow, resume_flow or reset_session) on
\* session s.
RequestOn(s) == Acts(s) /\ (calls' # calls \/ call'[s] # call[s])

\* C21: a session executes at most one step at a time: a request on a session
\* is taken up only when no call of that session is running, and a step of a
\* session is the step of its one running call, at its one control position.
C21_OneStepAtATime ==
    [][\A s \in Sessions :
           /\ RequestOn(s) => result[s] # "running"
           /\ (Acts(s) /\ ~RequestOn(s)) =>
                  /\ result[s] = "running"
                  /\ pc[s] \in Nodes
                  /\ executed'[s] \in {executed[s], Append(executed[s], pc[s])}]_vars

\* A second request on a session is being served after the first one ended,
\* while a call of the other session is running.
C21_Witness ==
    \E s \in Sessions : \E other \in Sessions \ {s} :
        /\ call[s].op = "resume_flow"
        /\ call[s].pending
        /\ result[s] = "running"
        /\ executed[s] = <<"route_user_message">>
        /\ result[other] = "running"

\* C22: when a failure of a decorated step brings its count in error_retries
\* to max_retries, control goes to diagnose_errors and not to the step's
\* normal successor, and the node executed next after the step is
\* diagnose_errors.
C22_RerouteIsTheOnlySuccessor ==
    /\ [][\A s \in Sessions :
              LET node == pc[s] IN
              (/\ executed'[s] = Append(executed[s], node)
               /\ node \in DecoratedNodes
               /\ last_step'[s] = [node |-> node, outcome |-> "raised"]
               /\ node \in DOMAIN ErrorRetries(s)'
               /\ ErrorRetries(s)'[node] >= max_retries(node)) =>
                  /\ pc'[s] = "diagnose_errors"
                  /\ result'[s] = "running"]_vars
    /\ [](\A s \in Sessions : \A i \in 1..(Len(executed[s]) - 1) :
              (executed[s][i] = rerouted[s] /\ executed[s][i + 1] # rerouted[s]) =>
                  /\ executed[s][i + 1] = "diagnose_errors"
                  /\ i + 1 = Len(executed[s]))

\* finish_conversation failed once (max_retries = 1): diagnose_errors ran
\* next and the run is at END without a goodbye message.
C22_Witness ==
    \E s \in Sessions :
        /\ rerouted[s] = "finish_conversation"
        /\ executed[s] = <<"route_user_message", "finish_conversation", "diagnose_errors">>
        /\ pc[s] = END
        /\ state[s]["messages"] = <<>>

\* C23: in a resume_flow call whose route_user_message failed, the run is at
\* diagnose_errors or, after it, at END: the router body was invoked once,
\* the call was not aborted by an exception, and no node but diagnose_errors
\* was executed after the router.
C23_RouteFailureReroutes ==
    \A s \in Sessions :
        (/\ call[s].op = "resume_flow"
         /\ call[s].pending
         /\ \/ last_step[s] = [node |-> "route_user_message", outcome |-> "raised"]
            \/ rerouted[s] = "route_user_message") =>
            /\ rerouted[s] = "route_user_message"
            /\ invoked[s]["route_user_message"] = max_retries("route_user_message")
            /\ executed[s] \in {<<"route_user_message">>,
                                 <<"route_user_message", "diagnose_errors">>}
            /\ pc[s] = IF Len(executed[s]) = Len(<<"route_user_message">>)
                       THEN "diagnose_errors" ELSE END
            /\ result[s] \in {"running", "final"}

\* The router failed on a resumed run, and the run ended through diagnose_errors.
C23_Witness ==
    \E s \in Sessions :
        /\ rerouted[s] = "route_user_message"
        /\ executed[s] = <<"route_user_message", "diagnose_errors">>
        /\ pc[s] = END
        /\ Len(ErrorLog(s)) = Len(<<"route_user_message">>)

\* C24: after a failed attempt of a decorated step that leaves retries (its
\* count in error_retries is below max_retries), the call is still running
\* and control is at the same step: the next invocation is that step again,
\* and the call has not returned to its caller.
C24_RetryIsLocal ==
    \A s \in Sessions :
        (/\ last_step[s].outcome = "raised"
         /\ last_step[s].node \in DecoratedNodes
         /\ last_step[s].node \in DOMAIN ErrorRetries(s)
         /\ ErrorRetries(s)[last_step[s].node] < max_retries(last_step[s].node)) =>
            /\ pc[s] = last_step[s].node
            /\ result[s] = "running"

\* C25: every failed attempt of a step appends exactly one entry naming the
\* step to error_log and raises the step's count in error_retries by one;
\* every successful attempt leaves error_log as it was.
C25_OneEntryPerFailure ==
    [][\A s \in Sessions :
           LET node == pc[s]
               before == IF node \in DOMAIN ErrorRetries(s) THEN ErrorRetries(s)[node] ELSE 0
           IN  executed'[s] = Append(executed[s], node) =>
                   /\ last_step'[s].outcome = "ok" => ErrorLog(s)' = ErrorLog(s)
                   /\ last_step'[s].outcome = "raised" =>
                          /\ Len(ErrorLog(s)') = Len(ErrorLog(s)) + 1
                          /\ IsPrefix(ErrorLog(s), ErrorLog(s)')
                          /\ ErrorLog(s)'[Len(ErrorLog(s)')].node = node
                          /\ node \in DOMAIN ErrorRetries(s)'
                          /\ ErrorRetries(s)'[node] = before + 1]_vars

\* C26: within one start_flow or resume_flow call no node is entered twice,
\* retries of the same step aside: the occurrences of a node among the nodes
\* executed in the call are consecutive, and the call ends when control
\* enters get_next_user_message, so that a cycle is closed only by a resume.
C26_NoNodeTwicePerCall ==
    /\ [](\A s \in Sessions : \A i, j \in 1..Len(executed[s]) :
              (i < j /\ executed[s][i] = executed[s][j]) =>
                  \A k \in i..j : executed[s][k] = executed[s][i])
    /\ [][\A s \in Sessions :
              (At(s, "get_next_user_message") /\ Acts(s)) =>
                  result'[s] = "suspended" /\ pc'[s] = "interrupted"]_vars

\* A resumed call went round the cycle route_user_message, coder_agent and
\* is suspended again in get_next_user_message.
C26_Witness ==
    \E s \in Sessions :
        /\ call[s].op = "resume_flow"
        /\ executed[s] = <<"route_user_message", "coder_agent">>
        /\ result[s] = "suspended"
        /\ pc[s] = "interrupted"

\* C27: diagnose_errors is executed at most once in a run, and each of its
\* executions returns, sets diagnostic_feedback, leaves error_log and
\* error_retries as they were, is followed by no reroute and takes the run to
\* END; this includes the executions in which the diagnostic agent fails.
C27_DiagnoseOnceThenEnd ==
    /\ [](\A s \in Sessions : \A i, j \in 1..Len(executed[s]) :
              (executed[s][i] = "diagnose_errors" /\ executed[s][j] = "diagnose_errors") => i = j)
    /\ [][\A s \in Sessions :
              (At(s, "diagnose_errors") /\ Acts(s)) =>
                  /\ last_step'[s] = [node |-> "diagnose_errors", outcome |-> "ok"]
                  /\ "diagnostic_feedback" \in DOMAIN state'[s]
                  /\ ErrorLog(s)' = ErrorLog(s)
                  /\ ErrorRetries(s)' = ErrorRetries(s)
                  /\ rerouted'[s] = rerouted[s]
                  /\ pc'[s] = END
                  /\ result'[s] = "final"]_vars

\* The diagnostic agent failed inside diagnose_errors: the run is at END with
\* the failure as its feedback and the one logged error kept.
C27_Witness ==
    \E s \in Sessions :
        /\ last_step[s].node = "diagnose_errors"
        /\ state[s]["diagnostic_feedback"] = "Diagnostic Agent failed"
        /\ pc[s] = END
        /\ Len(ErrorLog(s)) = Len(<<"route_user_message">>)

Messages(s) == IF "messages" \in DOMAIN state[s] THEN state[s]["messages"] ELSE <<>>

\* C28: over every transition of a run (a further start_flow and a reset
\* aside) the messages of a session are the messages before followed by what
\* the step returned: one goodbye message after a successful
\* finish_conversation, nothing after any other step, a suspension or a resume.
C28_MessagesAppendOnly ==
    [][\A s \in Sessions :
           (s \in orchestrators' /\ ~StartsFlow(s)) =>
               IF /\ executed'[s] = Append(executed[s], "finish_conversation")
                  /\ last_step'[s].outcome = "ok"
               THEN /\ IsPrefix(Messages(s), Messages(s)')
                    /\ Len(Messages(s)') = Len(Messages(s)) + 1
                    /\ Messages(s)'[Len(Messages(s)')] \in GoodbyeBlobs
               ELSE Messages(s)' = Messages(s)]_vars

\* A finished session holds its goodbye message after a later request on it.
C28_Witness ==
    \E s \in Sessions :
        /\ Messages(s) = <<"goodbye">>
        /\ pc[s] = END
        /\ call[s].op = "resume_flow"
        /\ ~call[s].pending

\* The fields a node may set when its body returns.
Produces(node) ==
    CASE node = "define_scope_with_reasoner" -> {"scope"}
      [] node \in {"coder_agent", "finish_conversation"} -> {"messages"}
      [] node = "get_next_user_message" -> {"latest_user_message"}
      [] node = "diagnose_errors" -> {"diagnostic_feedback"}
      [] node = "generate_tool_code" -> {"generated_code"}
      [] node = "finalize_new_tool" -> {"tool_creation_status"}
      [] OTHER -> {}

\* Every field outside allowed and outside the error bookkeeping is in both
\* states with the same value.
Frame(before, after, allowed) ==
    \A k \in (DOMAIN before \cup DOMAIN after) \ (allowed \cup {"error_log", "error_retries"}) :
        k \in DOMAIN before /\ k \in DOMAIN after /\ after[k] = before[k]

\* C29: a step changes no state field but the ones it produces, the
\* error_log / error_retries bookkeeping aside: an execution that returns
\* changes at most the fields of Produces, an execution that raises changes
\* none, a resume changes only latest_user_message, and a suspension changes
\* nothing.
C29_StepsKeepOtherFields ==
    [][\A s \in Sessions :
           /\ executed'[s] = Append(executed[s], pc[s]) =>
                  Frame(state[s], state'[s],
                        IF last_step'[s].outcome = "ok" THEN Produces(pc[s]) ELSE {})
           /\ (pc[s] = "interrupted" /\ pc'[s] = "route_user_message") =>
                  /\ Frame(state[s], state'[s], Produces("get_next_user_message"))
                  /\ ErrorLog(s)' = ErrorLog(s)
                  /\ ErrorRetries(s)' = ErrorRetries(s)
           /\ (At(s, "get_next_user_message") /\ Acts(s)) => state'[s] = state[s]]_vars

\* finalize_new_tool has set its status on a state that still holds the
\* scope, the user message and the generated code.
C29_Witness ==
    \E s \in Sessions :
        /\ last_step[s] = [node |-> "finalize_new_tool", outcome |-> "ok"]
        /\ state[s]["tool_creation_status"] = "Plugin created: tool_generated.py"
        /\ state[s]["generated_code"] = <<"class A">>
        /\ state[s]["scope"] = "plan"
        /\ state[s]["latest_user_message"] = MsgTool

C31_RetriesNeverExceedMax ==
    \A s \in Sessions : \A node \in DOMAIN ErrorRetries(s) :
        /\ node \in DecoratedNodes
        /\ ErrorRetries(s)[node] <= max_retries(node)

\* The count of define_scope_with_reasoner stands at its max_retries in a
\* run that has ended through diagnose_errors.
C31_Witness ==
    \E s \in Sessions :
        /\ "define_scope_with_reasoner" \in DOMAIN ErrorRetries(s)
        /\ ErrorRetries(s)["define_scope_with_reasoner"]
               = max_retries("define_scope_with_reasoner")
        /\ pc[s] = END
        /\ call[s].op = "start_flow"

\* C32: the execution of a step, returning or raising, changes error_retries
\* at no key but the step's own: every other key is kept with its count.
C32_RetriesChangeAtOwnKeyOnly ==
    [][\A s \in Sessions :
           executed'[s] = Append(executed[s], pc[s]) =>
               \A k \in (DOMAIN ErrorRetries(s) \cup DOMAIN ErrorRetries(s)') \ {pc[s]} :
                   /\ k \in DOMAIN ErrorRetries(s)
                   /\ k \in DOMAIN ErrorRetries(s)'
                   /\ ErrorRetries(s)'[k] = ErrorRetries(s)[k]]_vars

\* finish_conversation has failed on a state that holds the counts of the
\* three steps executed before it.
C32_Witness ==
    \E s \in Sessions :
        /\ last_step[s] = [node |-> "finish_conversation", outcome |-> "raised"]
        /\ DOMAIN ErrorRetries(s) = DecoratedNodes
        /\ ErrorRetries(s)["finish_conversation"] = max_retries("finish_conversation")
        /\ ErrorRetries(s)["route_user_message"] = 0

(***************************************************************************)
(* C33  register_tool on a name that is already in the tool registry       *)
(* raises ValueError and leaves the registry unchanged (the earlier tool   *)
(* stays registered); load_plugins therefore stops at the first            *)
(* already-registered tool it meets: the tools before it are registered,   *)
(* it and the tools after it are not, and the ValueError leaves the run.   *)
(***************************************************************************)
\* The position in members of the first tool whose name is taken, by the
\* registry or by an earlier member; 0 when there is none.
FirstTaken(registry, members) ==
    LET taken(i) == \/ members[i].name \in DOMAIN registry
                    \/ \E j \in 1..(i - 1) : members[j].name = members[i].name
    IN IF \E i \in 1..Len(members) : taken(i)
       THEN CHOOSE i \in 1..Len(members) : taken(i) /\ \A j \in 1..(i - 1) : ~taken(j)
       ELSE 0

C33_DuplicateRaisesAndStops ==
    [][LET registry == manager.TOOLS_REGISTRY
           after == manager'.TOOLS_REGISTRY
           arg == manager_call'.arg
       IN /\ (manager_call'.op = "register_tool" /\ arg[1].name \in DOMAIN registry) =>
                 /\ manager_call'.result = "ValueError"
                 /\ after = registry
          /\ (manager_call'.op = "load_plugins" /\ FirstTaken(registry, arg) > 0) =>
                 /\ manager_call'.result = "ValueError"
                 /\ \A n \in PluginNames :
                        IF n \in DOMAIN registry
                        THEN n \in DOMAIN after /\ after[n] = registry[n]
                        ELSE IF \E j \in 1..(FirstTaken(registry, arg) - 1) : arg[j].name = n
                        THEN n \in DOMAIN after /\ after[n] \in Range(arg)
                        ELSE n \notin DOMAIN after]_vars

\* load_plugins met a registered name first and a free name after it: the
\* earlier tool of the first name stays, the second tool is not registered.
C33_Witness ==
    /\ manager_call.op = "load_plugins"
    /\ manager_call.result = "ValueError"
    /\ Len(manager_call.arg) = 2
    /\ manager_call.arg[1].name \in DOMAIN manager.TOOLS_REGISTRY
    /\ manager.TOOLS_REGISTRY[manager_call.arg[1].name] # manager_call.arg[1]
    /\ manager_call.arg[2].name \notin DOMAIN manager.TOOLS_REGISTRY

(***************************************************************************)
(* C34  SecurePluginManager.register_tool with verification enabled never  *)
(* adds to, or overwrites in, the tool registry a tool whose trust score   *)
(* is below the threshold: it records the score, puts the name in the      *)
(* blocked list and raises SecurityException, leaving the registry         *)
(* unchanged; a tool whose score reaches the threshold is registered.      *)
(***************************************************************************)
C34_LowScoreNeverRegistered ==
    [][(/\ manager_call'.op = "secure_register_tool"
        /\ manager_call'.result # "PluginVerificationException") =>
           LET tool == manager_call'.arg[1]
           IN /\ tool.name \in DOMAIN manager'.trust_scores
              /\ IF manager'.trust_scores[tool.name] < manager.trust_threshold
                 THEN /\ manager_call'.result = "SecurityException"
                      /\ InList(manager'.blocked_plugins, tool.name)
                      /\ manager'.TOOLS_REGISTRY = manager.TOOLS_REGISTRY
                 ELSE /\ manager_call'.result = "ok"
                      /\ manager'.TOOLS_REGISTRY = Put(manager.TOOLS_REGISTRY, tool.name, tool)]_vars

\* A low-scored tool was offered under a name that another tool holds in the
\* registry: the other tool is still there, the name is blocked.
C34_Witness ==
    /\ manager_call.op = "secure_register_tool"
    /\ manager_call.result = "SecurityException"
    /\ manager_call.arg[1].name \in DOMAIN manager.TOOLS_REGISTRY
    /\ manager.TOOLS_REGISTRY[manager_call.arg[1].name] # manager_call.arg[1]
    /\ manager.trust_scores[manager_call.arg[1].name] < manager.trust_threshold
    /\ InList(manager.blocked_plugins, manager_call.arg[1].name)

(***************************************************************************)
(* C35  After any sequence of register_tool, force_register_tool,          *)
(* unregister_tool, update_trust_threshold and refresh_trust_scores on a   *)
(* SecurePluginManager, a tool name is in the blocked list exactly when    *)
(* its recorded trust score is below the current threshold, and it occurs  *)
(* there at most once.                                                     *)
(***************************************************************************)
Occurrences(list, x) == Cardinality({i \in 1..Len(list) : list[i] = x})

C35_BlockedIffLowScoreOnce ==
    \A n \in PluginNames :
        /\ InList(manager.blocked_plugins, n) <=>
               (n \in DOMAIN manager.trust_scores
                /\ manager.trust_scores[n] < manager.trust_threshold)
        /\ Occurrences(manager.blocked_plugins, n) <= 1

(***************************************************************************)
(* C36  After unregister_tool(name) the name is absent from the tool       *)
(* registry, the trust scores, the plugin metadata and the blocked list,   *)
(* whatever operations preceded it; a force_register_tool(name) that       *)
(* follows makes get_tool_by_name(name) return the tool.                   *)
(***************************************************************************)
C36_UnregisterForgetsTheName ==
    /\ [](manager_call.op = "unregister_tool" =>
              LET name == manager_call.arg[1]
              IN /\ name \notin DOMAIN manager.TOOLS_REGISTRY
                 /\ name \notin DOMAIN manager.trust_scores
                 /\ name \notin DOMAIN manager.plugin_metadata
                 /\ ~InList(manager.blocked_plugins, name))
    /\ [][(/\ manager_call.op = "unregister_tool"
           /\ manager_call'.op = "force_register_tool"
           /\ manager_call'.arg[1].name = manager_call.arg[1]) =>
              get_tool_by_name(manager', manager_call.arg[1]) = manager_call'.arg[1]]_vars

(***************************************************************************)
(* C37  purchase_plugin records a completed transaction and increments the *)
(* listing's download_count by exactly one if and only if the listing      *)
(* exists, is active, the buyer's balance covers the price and the         *)
(* transfer succeeds; in every other case it returns success = false and   *)
(* leaves listings and transactions unchanged.                             *)
(***************************************************************************)
C37_PurchaseRecordsIffChecksPass ==
    [][market_call'.op = "purchase_plugin" =>
           LET id == market_call'.plugin_id
               listings == marketplace.listings
               transactions == marketplace.transactions
               passes == /\ id \in DOMAIN listings
                         /\ listings[id].status = "active"
                         /\ market_call'.balance >= listings[id].price_zippycoin
                         /\ market_call'.transfer
           IN IF passes
              THEN /\ marketplace'.transactions =
                          Append(transactions,
                                 [plugin_id |-> id, buyer_wallet |-> market_call'.wallet,
                                  seller_wallet |-> listings[id].author,
                                  amount |-> listings[id].price_zippycoin,
                                  status |-> "completed"])
                   /\ marketplace'.listings =
                          [listings EXCEPT ![id].download_count = @ + 1]
              ELSE /\ market_call'.result = "failure"
                   /\ marketplace' = marketplace]_vars

\* A second purchase of the listing has been recorded and reported.
C37_Witness ==
    /\ market_call.op = "purchase_plugin"
    /\ market_call.result = "success"
    /\ market_call.plugin_id \in DOMAIN marketplace.listings
    /\ marketplace.listings[market_call.plugin_id].download_count = 2
    /\ Len(marketplace.transactions) = 2
    /\ marketplace.transactions[2].buyer_wallet = market_call.wallet

(***************************************************************************)
(* C38  remove_plugin_listing changes a listing only when called with the  *)
(* listing's author: for any other wallet or an unknown plugin id it       *)
(* returns false and changes nothing; after a successful removal the       *)
(* listing is inactive and can no longer be purchased or returned by       *)
(* search_plugins, and no later list_plugin or update_plugin_listing call  *)
(* by a non-author makes it active again.                                  *)
(***************************************************************************)
C38_OnlyTheAuthorDecides ==
    /\ [][market_call'.op = "remove_plugin_listing" =>
              LET id == market_call'.plugin_id
                  listings == marketplace.listings
              IN IF id \in DOMAIN listings /\ listings[id].author = market_call'.wallet
                 THEN /\ market_call'.result = "true"
                      /\ marketplace' = [marketplace EXCEPT !.listings[id].status = "inactive"]
                 ELSE /\ market_call'.result = "false"
                      /\ marketplace' = marketplace]_vars
    /\ [](\A id \in DOMAIN marketplace.listings :
              marketplace.listings[id].status = "inactive" =>
                  \A max_price \in Prices \cup {0} :
                      id \notin search_plugins(marketplace.listings, max_price))
    /\ [][\A id \in DOMAIN marketplace.listings :
              marketplace.listings[id].status = "inactive" =>
                  /\ (market_call'.op = "purchase_plugin" /\ market_call'.plugin_id = id) =>
                         /\ market_call'.result = "failure"
                         /\ marketplace' = marketplace
                  /\ (/\ market_call'.op \in {"list_plugin", "update_plugin_listing"}
                      /\ market_call'.wallet # marketplace.listings[id].author) =>
                         marketplace'.listings[id].status = "inactive"]_vars

====
